---- MODULE Spec2Model ----
(***************************************************************************)
(* Model of the route handlers of the FastAPI application:                 *)
(*   routes/image_gen.py     extract_url_from_output, generate_image,      *)
(*                           generate_gen4_image, get_image_generations,   *)
(*                           delete_image_generation                       *)
(*   routes/insta_scraper.py add_user_to_db                                *)
(* Three specifications share the module: SpecNorm applies the response    *)
(* normalizer to bounded Python values, Spec runs the image-store          *)
(* handlers, SpecUsers interleaves add_user_to_db requests at their awaits.*)
(***************************************************************************)
EXTENDS Integers, Sequences, FiniteSets, TLC

VARIABLES
    \* --- extract_url_from_output, called on its own (SpecNorm)
    output,      \* the value handed to extract_url_from_output
    result,      \* its outcome, NoOutcome before the call
    \* --- image store and its handlers (Spec)
    apiKey,      \* REPLICATE_API_KEY is set
    images,      \* db.images, in natural (insertion) order
    nextId,      \* the next store-assigned ObjectId
    last,        \* what the most recent handler call was and what it answered
    nGen,        \* generate / generate-gen4 calls that answered success=True
    nDel,        \* delete calls that answered success=True
    \* --- users collection and add_user_to_db requests (SpecUsers)
    rapidKey,    \* RAPID_API_KEY is set
    users,       \* db.users, in natural (insertion) order
    pc,          \* per request: where the coroutine is suspended
    uname,       \* per request: the username path parameter
    found,       \* per request: what find_one returned
    api_data,    \* per request: response.json()
    started,     \* add_user_to_db calls begun so far
    fetches,     \* per username: external requests.get calls made for it
    log,         \* per username: outcomes of the completed calls, in order
    overlap      \* per username: two calls for it were ever in flight together

normVars  == <<output, result>>
imageVars == <<apiKey, images, nextId, last, nGen, nDel>>
userVars  == <<rapidKey, users, pc, uname, found, api_data, started, fetches, log, overlap>>
vars      == <<normVars, imageVars, userVars>>

-----------------------------------------------------------------------------
(* Bounds *)

MaxListLen == 2      \* longest list handed to the normalizer
MaxGen     == 2      \* generate calls that reach the store
MaxTime    == 1      \* datetime.utcnow() ranges over 0..MaxTime
FirstId    == 9      \* the first ObjectId the store assigns
IdLen      == 2      \* hex digits in the string form of an ObjectId
MaxCalls   == 3      \* add_user_to_db calls begun

-----------------------------------------------------------------------------
(* Python values and exceptions *)

\* An attribute access either yields a value or raises.
Val(v)     == [kind |-> "ok", val |-> v, exc |-> "none"]
Raise(e)   == [kind |-> "raise", val |-> [tag |-> "None"], exc |-> e]

PyNone     == [tag |-> "None"]
PyStrV(s)  == [tag |-> "str", s |-> s]
PyInt(n)   == [tag |-> "int", n |-> n]
\* An object: what reading its url attribute does the first and the second time
\* (a property may raise, and need not answer twice alike).
PyObj(a, b) == [tag |-> "obj", url1 |-> a, url2 |-> b]
PyList(xs) == [tag |-> "list", items |-> xs]

Exceptions == {"AttributeError", "TypeError", "IndexError", "ValueError", "RuntimeError"}

Locators   == {"", "https://x/a.jpg", "https://x/b.jpg"}
UrlValues  == {PyStrV(s) : s \in Locators} \cup {PyInt(42), PyNone}
Accesses   == {Val(v) : v \in UrlValues} \cup {Raise(e) : e \in Exceptions}
Objects    == {PyObj(a, b) : a \in Accesses, b \in Accesses}
Scalars    == {PyStrV(s) : s \in Locators} \cup {PyInt(0), PyInt(42), PyNone}
\* List elements: scalars, a FileOutput, an object without url, a flaky one.
Elements   == Scalars \cup
              { PyObj(Val(PyStrV("https://x/a.jpg")), Val(PyStrV("https://x/a.jpg"))),
                PyObj(Val(PyStrV("")), Val(PyStrV(""))),
                PyObj(Raise("AttributeError"), Raise("AttributeError")),
                PyObj(Val(PyInt(42)), Raise("ValueError")),
                PyObj(Raise("TypeError"), Val(PyNone)),
                PyObj(Val(PyNone), Raise("RuntimeError")) }
Lists      == {PyList(xs) : xs \in UNION {[1..n -> Elements] : n \in 0..MaxListLen}}
PyValues   == Objects \cup Scalars \cup Lists

Digit(d) ==
    CASE d = 0 -> "0" [] d = 1 -> "1" [] d = 2 -> "2" [] d = 3 -> "3" [] d = 4 -> "4"
      [] d = 5 -> "5" [] d = 6 -> "6" [] d = 7 -> "7" [] d = 8 -> "8" [] d = 9 -> "9"

RECURSIVE IntStr(_)
IntStr(n) == IF n < 10 THEN Digit(n) ELSE IntStr(n \div 10) \o Digit(n % 10)

\* str(v) and repr(v); str of a list joins the repr of its items.
RECURSIVE PyRepr(_)
RECURSIVE JoinRepr(_)
JoinRepr(xs) ==
    IF Len(xs) = 0 THEN ""
    ELSE IF Len(xs) = 1 THEN PyRepr(xs[1])
    ELSE PyRepr(xs[1]) \o ", " \o JoinRepr(Tail(xs))

PyRepr(v) ==
    CASE v.tag = "str"  -> "'" \o v.s \o "'"
      [] v.tag = "int"  -> IntStr(v.n)
      [] v.tag = "None" -> "None"
      [] v.tag = "obj"  -> "<object>"
      [] v.tag = "list" -> "[" \o JoinRepr(v.items) \o "]"

PyStr(v) == IF v.tag = "str" THEN v.s ELSE PyRepr(v)

\* getattr(v, "url"), the n-th time it is read.
GetUrl(v, n) ==
    IF v.tag = "obj" THEN (IF n = 1 THEN v.url1 ELSE v.url2)
    ELSE Raise("AttributeError")

\* hasattr(v, "url"): False on AttributeError, any other exception propagates.
HasUrl(v) ==
    LET a == GetUrl(v, 1) IN
    IF a.kind = "ok" THEN [kind |-> "ok", val |-> TRUE, exc |-> "none"]
    ELSE IF a.exc = "AttributeError" THEN [kind |-> "ok", val |-> FALSE, exc |-> "none"]
    ELSE [kind |-> "raise", val |-> FALSE, exc |-> a.exc]

-----------------------------------------------------------------------------
(* extract_url_from_output *)

Ret(s)     == [kind |-> "ret", val |-> s, exc |-> "none"]
Throw(e)   == [kind |-> "raise", val |-> "", exc |-> e]
NoOutcome  == [kind |-> "none", val |-> "", exc |-> "none"]

\* hasattr(v, "url") followed by str(v.url); Otherwise when hasattr is False.
UrlOr(v, otherwise) ==
    LET h == HasUrl(v) IN
    IF h.kind = "raise" THEN Throw(h.exc)
    ELSE IF h.val THEN
        (LET a == GetUrl(v, 2) IN
         IF a.kind = "raise" THEN Throw(a.exc) ELSE Ret(PyStr(a.val)))
    ELSE otherwise

\* The body of the try block.
ExtractBody(v) ==
    UrlOr(v,
        IF v.tag = "str" THEN Ret(v.s)
        ELSE IF v.tag = "list" /\ Len(v.items) > 0
             THEN UrlOr(v.items[1], Ret(PyStr(v.items[1])))
        ELSE Ret(PyStr(v)))

\* A mutation of the except clause: ValueError left out of the tuple.
CaughtNoValueError == {"AttributeError", "TypeError", "IndexError"}

\* except (AttributeError, TypeError, IndexError, ValueError)
Caught == {"AttributeError", "TypeError", "IndexError", "ValueError"}

\* A mutation of the function: a list is never looked into.
ExtractWholeList(v) ==
    LET r == UrlOr(v, IF v.tag = "str" THEN Ret(v.s) ELSE Ret(PyStr(v))) IN
    IF r.kind = "raise" /\ r.exc \in Caught THEN Ret(PyStr(v)) ELSE r

extract_url_from_output(v) ==
    LET r == ExtractBody(v) IN
    IF r.kind = "raise" /\ r.exc \in Caught THEN Ret(PyStr(v)) ELSE r

-----------------------------------------------------------------------------
(* bson.ObjectId: its string form and its parsing *)

HexDigits == <<"0", "1", "2", "3", "4", "5", "6", "7", "8", "9",
               "a", "b", "c", "d", "e", "f">>

RECURSIVE HexStr(_, _)
HexStr(n, w) == IF w = 0 THEN <<>> ELSE Append(HexStr(n \div 16, w - 1), HexDigits[(n % 16) + 1])

\* str(oid): lower-case hex digits, fixed width.
ObjectIdStr(oid) == HexStr(oid, IdLen)

\* The value of one hex digit, either case; -1 for any other character.
HexValue(c) ==
    CASE c = "0" -> 0 [] c = "1" -> 1 [] c = "2" -> 2 [] c = "3" -> 3 [] c = "4" -> 4
      [] c = "5" -> 5 [] c = "6" -> 6 [] c = "7" -> 7 [] c = "8" -> 8 [] c = "9" -> 9
      [] c \in {"a", "A"} -> 10 [] c \in {"b", "B"} -> 11 [] c \in {"c", "C"} -> 12
      [] c \in {"d", "D"} -> 13 [] c \in {"e", "E"} -> 14 [] c \in {"f", "F"} -> 15
      [] OTHER -> -1

RECURSIVE HexNum(_)
HexNum(s) == IF Len(s) = 0 THEN 0
             ELSE 16 * HexNum(SubSeq(s, 1, Len(s) - 1)) + HexValue(s[Len(s)])

\* A mutation of the parser: a string that does not parse becomes an
\* identifier that matches no document.
ObjectIdLenient(s) ==
    IF Len(s) = IdLen /\ \A i \in 1..Len(s) : HexValue(s[i]) >= 0
    THEN [ok |-> TRUE, oid |-> HexNum(s)]
    ELSE [ok |-> TRUE, oid |-> -1]

\* ObjectId(s): the identifier, or not ok (bson.errors.InvalidId is raised).
ObjectId(s) ==
    IF Len(s) = IdLen /\ \A i \in 1..Len(s) : HexValue(s[i]) >= 0
    THEN [ok |-> TRUE, oid |-> HexNum(s)]
    ELSE [ok |-> FALSE, oid |-> -1]

UpperChar(c) ==
    CASE c = "a" -> "A" [] c = "b" -> "B" [] c = "c" -> "C" [] c = "d" -> "D"
      [] c = "e" -> "E" [] c = "f" -> "F" [] OTHER -> c
Upper(s) == [i \in 1..Len(s) |-> UpperChar(s[i])]

\* The identifiers the store can assign, and one past them.
Oids == FirstId..(FirstId + MaxGen)

MalformedIds == { [i \in 1..IdLen |-> "z"],
                  [i \in 1..(IdLen - 1) |-> "0"],
                  [i \in 1..(IdLen + 1) |-> "0"] }

\* The generation_id path parameters tried.
GenerationIds == {ObjectIdStr(n) : n \in Oids} \cup {Upper(ObjectIdStr(FirstId + 1))}
                 \cup MalformedIds

-----------------------------------------------------------------------------
(* The image store: db.images *)

Min(S) == CHOOSE x \in S : \A y \in S : x <= y

Ids(coll) == {coll[i]._id : i \in 1..Len(coll)}

\* A mutation of insert_one: a document with the same prompt and output_url
\* is replaced (an upsert).
InsertUpsert(coll, doc) ==
    LET same == {i \in 1..Len(coll) :
                    coll[i].prompt = doc.prompt /\ coll[i].output_url = doc.output_url} IN
    IF same = {} THEN Append(coll, doc)
    ELSE [i \in 1..Len(coll) |-> IF i = Min(same) THEN doc ELSE coll[i]]

\* insert_one(doc): the document is appended.
InsertOne(coll, doc) == Append(coll, doc)

\* A mutation of delete_one: the filter is ignored and the first document goes.
DeleteFirst(coll, oid) ==
    IF Len(coll) = 0 THEN [coll |-> coll, deleted_count |-> 0]
    ELSE [coll |-> Tail(coll), deleted_count |-> 1]

\* delete_one({"_id": oid}): the first matching document is removed.
DeleteOne(coll, oid) ==
    LET hit == {i \in 1..Len(coll) : coll[i]._id = oid} IN
    IF hit = {} THEN [coll |-> coll, deleted_count |-> 0]
    ELSE [coll |-> SubSeq(coll, 1, Min(hit) - 1) \o SubSeq(coll, Min(hit) + 1, Len(coll)),
          deleted_count |-> 1]

\* find({}, {"_id": 1, "output_url": 1, "created_at": 1}).to_list(length=None)
FindProjected(coll) ==
    [i \in 1..Len(coll) |->
        [_id |-> coll[i]._id, output_url |-> coll[i].output_url,
         created_at |-> coll[i].created_at]]

\* generation["_id"] = str(generation["_id"]) for each generation
StrIds(gens) ==
    [i \in 1..Len(gens) |->
        [_id |-> ObjectIdStr(gens[i]._id), output_url |-> gens[i].output_url,
         created_at |-> gens[i].created_at]]

\* x placed after every element whose created_at is >= its own: equal keys keep
\* their order, as list.sort(reverse=True) does.
RECURSIVE InsertDesc(_, _)
InsertDesc(s, x) ==
    IF Len(s) = 0 THEN <<x>>
    ELSE IF s[1].created_at >= x.created_at THEN <<s[1]>> \o InsertDesc(Tail(s), x)
    ELSE <<x>> \o s

RECURSIVE SortFrom(_, _)
SortFrom(acc, s) == IF Len(s) = 0 THEN acc ELSE SortFrom(InsertDesc(acc, s[1]), Tail(s))

\* A mutation of the sort: reverse=True left out.
RECURSIVE InsertAsc(_, _)
InsertAsc(s, x) ==
    IF Len(s) = 0 THEN <<x>>
    ELSE IF s[1].created_at <= x.created_at THEN <<s[1]>> \o InsertAsc(Tail(s), x)
    ELSE <<x>> \o s

RECURSIVE SortAscFrom(_, _)
SortAscFrom(acc, s) == IF Len(s) = 0 THEN acc ELSE SortAscFrom(InsertAsc(acc, s[1]), Tail(s))

SortAscending(gens) == SortAscFrom(<<>>, gens)

\* generations.sort(key=lambda x: x["created_at"], reverse=True)
SortByCreatedAtDesc(gens) == SortFrom(<<>>, gens)

-----------------------------------------------------------------------------
(* The image handlers.  replicate.run is a blocking call and each handler    *)
(* awaits one store call, whose effect on the store is atomic: a handler is  *)
(* one step.  A store call that raises PyMongoError leaves the store as it   *)
(* was.                                                                      *)

Prompts == {"a cat"}

FileOutput(u) == PyObj(Val(PyStrV(u)), Val(PyStrV(u)))

\* What replicate.run returns: a FileOutput, a string, or a list of either.
GenOutputs == { FileOutput("https://x/a.jpg"), PyStrV("https://x/b.jpg"),
                PyList(<<FileOutput("https://x/b.jpg")>>),
                PyList(<<PyStrV("https://x/a.jpg")>>) }

\* replicate.run: an output, replicate.exceptions.ReplicateError, or another
\* exception of the client (ModelError is no ReplicateError).
Upstream == {Val(o) : o \in GenOutputs} \cup {Raise("ReplicateError"), Raise("ModelError")}

StoreOutcomes == {"ok", "PyMongoError"}

\* The call and its answer.  upstream, store: what replicate.run and the store
\* call did in this call ("none": not called).  kind: "return" (a payload) or
\* "raise" (an exception left the handler).
Answer(op, arg, upstream, store, kind, exc, status_code, success, id, image_url, gens) ==
    [op |-> op, arg |-> arg, upstream |-> upstream, store |-> store, kind |-> kind,
     exc |-> exc, status_code |-> status_code, success |-> success, id |-> id,
     image_url |-> image_url, generations |-> gens]

NoAnswer == Answer("none", <<>>, "none", "none", "none", "none", 0, FALSE, <<>>, "", <<>>)

\* image_data of generate_image
ImageData(request, output_url, now) ==
    [prompt |-> request.prompt, input_image |-> request.input_image,
     output_format |-> request.output_format, output_url |-> output_url,
     model |-> "black-forest-labs/flux-kontext-pro", created_at |-> now,
     status |-> "completed"]

\* image_data of generate_gen4_image
Gen4ImageData(request, output_url, now) ==
    [prompt |-> request.prompt, aspect_ratio |-> request.aspect_ratio,
     reference_tags |-> request.reference_tags,
     reference_images |-> request.reference_images, output_url |-> output_url,
     model |-> "runwayml/gen4-image", created_at |-> now, status |-> "completed"]

\* insert_one adds the _id it assigns to the document.
WithId(doc, oid) == [f \in DOMAIN doc \cup {"_id"} |-> IF f = "_id" THEN oid ELSE doc[f]]

\* The part the two generate handlers share; data is the image_data, its
\* output_url filled in once the output is normalized.
Generate(op, data, up, st) ==
    IF ~apiKey THEN
        /\ last' = Answer(op, <<>>, "none", "none", "raise", "HTTPException", 500, FALSE, <<>>, "", <<>>)
        /\ UNCHANGED <<images, nextId, nGen>>
    ELSE IF up.kind = "raise" THEN
        /\ last' = IF up.exc = "ReplicateError"
                   THEN Answer(op, <<>>, up.exc, "none", "return", "none", 500, FALSE, <<>>, "", <<>>)
                   ELSE Answer(op, <<>>, up.exc, "none", "raise", up.exc, 0, FALSE, <<>>, "", <<>>)
        /\ UNCHANGED <<images, nextId, nGen>>
    ELSE LET url == extract_url_from_output(up.val) IN
        IF url.kind = "raise" THEN
            /\ last' = Answer(op, <<>>, "ok", "none", "raise", url.exc, 0, FALSE, <<>>, "", <<>>)
            /\ UNCHANGED <<images, nextId, nGen>>
        ELSE IF st = "PyMongoError" THEN
            /\ last' = Answer(op, <<>>, "ok", st, "raise", st, 0, FALSE, <<>>, "", <<>>)
            /\ UNCHANGED <<images, nextId, nGen>>
        ELSE
            /\ images' = InsertOne(images, WithId([data EXCEPT !.output_url = url.val], nextId))
            /\ nextId' = nextId + 1
            /\ nGen' = nGen + 1
            /\ last' = Answer(op, <<>>, "ok", st, "return", "none", 0, TRUE,
                              ObjectIdStr(nextId), url.val, <<>>)

\* A mutation of generate_image: the record is written before replicate.run
\* is called.
GenerateImageEager(request, up, st, now) ==
    /\ images' = InsertOne(images, WithId(ImageData(request, "", now), nextId))
    /\ nextId' = nextId + 1
    /\ IF apiKey /\ up.kind = "ok"
       THEN /\ nGen' = nGen + 1
            /\ last' = Answer("generate", <<>>, "ok", st, "return", "none", 0, TRUE,
                              ObjectIdStr(nextId), "", <<>>)
       ELSE /\ nGen' = nGen
            /\ last' = Answer("generate", <<>>, up.exc, "none", "return", "none", 500,
                              FALSE, <<>>, "", <<>>)

GenerateImage(request, up, st, now) ==
    Generate("generate", ImageData(request, "", now), up, st)

GenerateGen4Image(request, up, st, now) ==
    Generate("generate-gen4", Gen4ImageData(request, "", now), up, st)

\* POST /generate
generate_image ==
    \E prompt \in Prompts, up \in Upstream, st \in StoreOutcomes, now \in 0..MaxTime :
        /\ nextId < FirstId + MaxGen
        /\ GenerateImage([prompt |-> prompt, input_image |-> "None",
                          output_format |-> "jpg", aspect_ratio |-> "4:3"], up, st, now)
        /\ UNCHANGED <<apiKey, nDel, normVars, userVars>>

\* POST /generate-gen4
generate_gen4_image ==
    \E prompt \in Prompts, up \in Upstream, st \in StoreOutcomes, now \in 0..MaxTime :
        /\ nextId < FirstId + MaxGen
        /\ GenerateGen4Image([prompt |-> prompt, aspect_ratio |-> "4:3",
                              reference_tags |-> "None", reference_images |-> "None"],
                             up, st, now)
        /\ UNCHANGED <<apiKey, nDel, normVars, userVars>>

\* The payload of get_image_generations once find has answered.
ListPayload(found_docs) ==
    IF Len(found_docs) = 0 THEN <<>> ELSE SortByCreatedAtDesc(StrIds(found_docs))

\* GET /generations
get_image_generations ==
    \E st \in StoreOutcomes :
        /\ last' = IF st = "PyMongoError"
                   THEN Answer("generations", <<>>, "none", st, "return", "none", 500,
                               FALSE, <<>>, "", <<>>)
                   ELSE Answer("generations", <<>>, "none", st, "return", "none", 0,
                               TRUE, <<>>, "", ListPayload(FindProjected(images)))
        /\ UNCHANGED <<apiKey, images, nextId, nGen, nDel, normVars, userVars>>

\* delete_image_generation once the store is reached with a parsed identifier.
DeleteParsed(generation_id, oid, st) ==
    IF st = "PyMongoError" THEN
        /\ last' = Answer("delete", generation_id, "none", st, "return", "none", 500,
                          FALSE, <<>>, "", <<>>)
        /\ UNCHANGED <<images, nDel>>
    ELSE LET r == DeleteOne(images, oid) IN
        /\ images' = r.coll
        /\ IF r.deleted_count = 0
           THEN /\ last' = Answer("delete", generation_id, "none", st, "raise",
                                  "HTTPException", 404, FALSE, <<>>, "", <<>>)
                /\ nDel' = nDel
           ELSE /\ last' = Answer("delete", generation_id, "none", st, "return", "none",
                                  0, TRUE, <<>>, "", <<>>)
                /\ nDel' = nDel + 1

\* GET /delete/{generation_id}
delete_image_generation ==
    \E generation_id \in GenerationIds, st \in StoreOutcomes :
        /\ LET object_id == ObjectId(generation_id) IN
           IF ~object_id.ok THEN
               /\ last' = Answer("delete", generation_id, "none", "none", "raise",
                                 "InvalidId", 0, FALSE, <<>>, "", <<>>)
               /\ UNCHANGED <<images, nDel>>
           ELSE DeleteParsed(generation_id, object_id.oid, st)
        /\ UNCHANGED <<apiKey, nextId, nGen, normVars, userVars>>

-----------------------------------------------------------------------------
(* add_user_to_db.  The coroutine suspends at await db.users.find_one and at *)
(* await db.users.insert_one; requests.get in between is a blocking call.    *)
(* Requests interleave at the two awaits only, so a request is three steps:  *)
(* it begins and awaits find_one; find_one answers and it runs up to the     *)
(* await of insert_one; insert_one answers and it returns.                   *)

Requests  == {"r1", "r2"}
Usernames == {"alice", "bob"}

\* Bodies the scraper API may answer with for a username: the profile at top
\* level, the profile wrapped in an envelope, an error body.
Profile(u)  == [username |-> u, followers |-> 10]
Envelope(u) == [data |-> [username |-> u, followers |-> 10], status |-> "ok"]
ErrorBody   == [message |-> "User not found"]

\* requests.get(...).json(): a body, or requests.RequestException.
ApiAnswers(u) == {Val(Profile(u)), Val(Envelope(u)), Val(ErrorBody), Raise("RequestException")}

Matches(doc, u) == "username" \in DOMAIN doc /\ doc.username = u

\* find_one({"username": u}): the first matching document, or None.
FindOne(coll, u) ==
    LET hit == {i \in 1..Len(coll) : Matches(coll[i], u)} IN
    IF hit = {} THEN [some |-> FALSE, doc |-> ErrorBody]
    ELSE [some |-> TRUE, doc |-> coll[Min(hit)]]

InFlight(u) == {q \in Requests : pc[q] # "idle" /\ uname[q] = u}

Completed(p, outcome) ==
    /\ pc' = [pc EXCEPT ![p] = "idle"]
    /\ log' = [log EXCEPT ![uname[p]] = Append(@, outcome)]

\* The request begins: the key check, then await find_one.
AddStart(p) ==
    \E username \in Usernames :
        /\ pc[p] = "idle"
        /\ started < MaxCalls
        /\ started' = started + 1
        /\ IF ~rapidKey THEN
               /\ log' = [log EXCEPT ![username] = Append(@, "no_key")]
               /\ UNCHANGED <<pc, uname, overlap>>
           ELSE
               /\ pc' = [pc EXCEPT ![p] = "find_one"]
               /\ uname' = [uname EXCEPT ![p] = username]
               /\ overlap' = [overlap EXCEPT ![username] = @ \/ InFlight(username) # {}]
               /\ log' = log
        /\ UNCHANGED <<rapidKey, users, found, api_data, fetches, normVars, imageVars>>

\* find_one answers; on a miss the API is called and insert_one awaited.
AddFound(p) ==
    \E st \in StoreOutcomes, answer \in ApiAnswers(uname[p]) :
        /\ pc[p] = "find_one"
        /\ IF st = "PyMongoError" THEN
               /\ Completed(p, "store_error")
               /\ UNCHANGED <<found, api_data, fetches>>
           ELSE LET user_data == FindOne(users, uname[p]) IN
               /\ found' = [found EXCEPT ![p] = user_data.some]
               /\ IF user_data.some THEN
                      /\ Completed(p, "exists")
                      /\ UNCHANGED <<api_data, fetches>>
                  ELSE
                      /\ fetches' = [fetches EXCEPT ![uname[p]] = @ + 1]
                      /\ IF answer.kind = "raise" THEN
                             /\ Completed(p, "fetch_error")
                             /\ UNCHANGED api_data
                         ELSE
                             /\ api_data' = [api_data EXCEPT ![p] = answer.val]
                             /\ pc' = [pc EXCEPT ![p] = "insert_one"]
                             /\ log' = log
        /\ UNCHANGED <<rapidKey, users, uname, started, overlap, normVars, imageVars>>

\* A mutation of the insert: the collection has a unique index on username.
AddInsertUnique(p) ==
    /\ pc[p] = "insert_one"
    /\ \A i \in 1..Len(users) :
          ~("username" \in DOMAIN api_data[p] /\ Matches(users[i], api_data[p].username))
    /\ users' = Append(users, api_data[p])
    /\ Completed(p, "inserted")
    /\ UNCHANGED <<rapidKey, uname, found, api_data, started, fetches, overlap,
                   normVars, imageVars>>

\* insert_one(api_data) answers: the body is stored as it came.
AddInsertOk(p) ==
    /\ pc[p] = "insert_one"
    /\ users' = Append(users, api_data[p])
    /\ Completed(p, "inserted")
    /\ UNCHANGED <<rapidKey, uname, found, api_data, started, fetches, overlap,
                   normVars, imageVars>>

\* insert_one raises PyMongoError, which the handler does not catch.
AddInsertErr(p) ==
    /\ pc[p] = "insert_one"
    /\ Completed(p, "store_error")
    /\ UNCHANGED <<rapidKey, users, uname, found, api_data, started, fetches, overlap,
                   normVars, imageVars>>

-----------------------------------------------------------------------------
(* Initial states and specifications *)

NormIdle == /\ output = PyNone
            /\ result = NoOutcome

ImagesIdle == /\ apiKey = TRUE
              /\ images = <<>>
              /\ nextId = FirstId
              /\ last = NoAnswer
              /\ nGen = 0
              /\ nDel = 0

UsersIdle == /\ users = <<>>
             /\ pc = [p \in Requests |-> "idle"]
             /\ uname = [p \in Requests |-> "alice"]
             /\ found = [p \in Requests |-> FALSE]
             /\ api_data = [p \in Requests |-> ErrorBody]
             /\ started = 0
             /\ fetches = [u \in Usernames |-> 0]
             /\ log = [u \in Usernames |-> <<>>]
             /\ overlap = [u \in Usernames |-> FALSE]

\* The normalizer applied once to a value.
Normalize ==
    /\ result = NoOutcome
    /\ result' = extract_url_from_output(output)
    /\ UNCHANGED <<output, imageVars, userVars>>

InitNorm == /\ output \in PyValues
            /\ result = NoOutcome
            /\ ImagesIdle
            /\ rapidKey = TRUE
            /\ UsersIdle
NextNorm == Normalize
SpecNorm == InitNorm /\ [][NextNorm]_vars

\* The image handlers on a store that starts empty; the key is read once, at import.
Init == /\ NormIdle
        /\ apiKey \in BOOLEAN
        /\ images = <<>>
        /\ nextId = FirstId
        /\ last = NoAnswer
        /\ nGen = 0
        /\ nDel = 0
        /\ rapidKey = TRUE
        /\ UsersIdle
Next == \/ generate_image
        \/ generate_gen4_image
        \/ get_image_generations
        \/ delete_image_generation
Spec == Init /\ [][Next]_vars

\* Requests to /users/add/{username} on a collection that starts empty.
InitUsers == /\ NormIdle
             /\ ImagesIdle
             /\ rapidKey \in BOOLEAN
             /\ UsersIdle
NextUsers == \E p \in Requests :
                \/ AddStart(p)
                \/ AddFound(p)
                \/ AddInsertOk(p)
                \/ AddInsertErr(p)
SpecUsers == InitUsers /\ [][NextUsers]_vars

-----------------------------------------------------------------------------
(* Claims about extract_url_from_output (SpecNorm) *)

Called == result.kind # "none"

\* An object whose url attribute reads alike both times.
HasLocator(v) == v.tag = "obj" /\ v.url1.kind = "ok" /\ v.url2 = v.url1
NoUrlAttribute(v) == v.tag = "obj" /\ v.url1 = Raise("AttributeError") /\ v.url2 = v.url1

ListOfObject(v) == v.tag = "list" /\ Len(v.items) > 0 /\ HasLocator(v.items[1])
ListOfString(v) == v.tag = "list" /\ Len(v.items) > 0 /\ v.items[1].tag = "str"
Recognized(v)   == HasLocator(v) \/ v.tag = "str" \/ ListOfObject(v) \/ ListOfString(v)
Unrecognized(v) == \/ v.tag \in {"int", "None"}
                   \/ NoUrlAttribute(v)
                   \/ (v.tag = "list" /\ Len(v.items) = 0)

\* The value that carries the locator of a recognized shape.
LocatorOf(v) ==
    CASE HasLocator(v)   -> v.url1.val
      [] v.tag = "str"   -> v
      [] ListOfObject(v) -> v.items[1].url1.val
      [] ListOfString(v) -> v.items[1]

Expected(v) == IF Recognized(v) THEN PyStr(LocatorOf(v)) ELSE PyStr(v)

UrlError(v) ==
    IF v.tag # "obj" THEN "none"
    ELSE IF v.url1.kind = "raise"
         THEN (IF v.url1.exc = "AttributeError" THEN "none" ELSE v.url1.exc)
    ELSE IF v.url2.kind = "raise" THEN v.url2.exc
    ELSE "none"

\* The exception raised while the shape of v is probed, "none" if none is.
ProbeError(v) ==
    IF v.tag = "obj" THEN UrlError(v)
    ELSE IF v.tag = "list" /\ Len(v.items) > 0 THEN UrlError(v.items[1])
    ELSE "none"

FourKinds == {"AttributeError", "TypeError", "IndexError", "ValueError"}

\* C2: whenever probing raises an attribute, type, index or value error, the
\* call returns str(output); no error of these four kinds leaves the function.
C2_ErrorsFallBack ==
    Called => /\ (ProbeError(output) \in FourKinds => result = Ret(PyStr(output)))
              /\ (result.kind = "raise" => result.exc \notin FourKinds)

C2_Witness ==
    /\ ProbeError(output) = "ValueError"
    /\ output.tag = "list"
    /\ result = Ret(PyStr(output))

-----------------------------------------------------------------------------
(* Claims about the image handlers (Spec) *)

GenOps == {"generate", "generate-gen4"}

IsSortedDesc(g) == \A i \in 1..(Len(g) - 1) : g[i].created_at >= g[i + 1].created_at

Listed(doc) == [_id |-> ObjectIdStr(doc._id), output_url |-> doc.output_url,
                created_at |-> doc.created_at]

\* C3: when the store answers, the listing succeeds with exactly the stored
\* records, each as {_id as string, output_url, created_at}, most recent
\* first; an empty store lists as an empty sequence.
C3_ListedNewestFirst ==
    (last.op = "generations" /\ last.store = "ok")
        => /\ last.kind = "return"
           /\ last.success
           /\ Len(last.generations) = Len(images)
           /\ {last.generations[i] : i \in 1..Len(last.generations)}
                  = {Listed(images[i]) : i \in 1..Len(images)}
           /\ IsSortedDesc(last.generations)
           /\ (Len(images) = 0 => last.generations = <<>>)

\* Two records inserted oldest first are listed newest first.
C3_Witness ==
    /\ last.op = "generations"
    /\ Len(images) = 2
    /\ images[1].created_at < images[2].created_at
    /\ last.generations = <<Listed(images[2]), Listed(images[1])>>

Lower(s) == [i \in 1..Len(s) |-> IF HexValue(s[i]) >= 10 THEN HexDigits[HexValue(s[i]) + 1] ELSE s[i]]

\* The documents a generation_id names.
Named(coll, g) == {i \in 1..Len(coll) : ObjectIdStr(coll[i]._id) = Lower(g)}

Without(coll, g) ==
    LET keep(doc) == ObjectIdStr(doc._id) # Lower(g) IN SelectSeq(coll, keep)

\* C4: a delete by a well-formed identifier that names no record raises 404
\* and leaves the store as it was; a delete by the identifier the generate
\* call just before it returned removes that document and no other; an
\* identifier that was assigned and is no longer stored is never stored again.
C4_DeleteExactlyOne ==
    [][ /\ (last'.op = "delete" /\ last'.store = "ok" /\ last'.arg \notin MalformedIds
              /\ Named(images, last'.arg) = {})
            => (/\ last'.kind = "raise" /\ last'.exc = "HTTPException"
                /\ last'.status_code = 404
                /\ images' = images)
        /\ (last'.op = "delete" /\ last'.store = "ok"
              /\ last.op \in GenOps /\ last.success /\ last'.arg = last.id)
            => (/\ last'.kind = "return" /\ last'.success
                /\ Cardinality(Named(images, last'.arg)) = 1
                /\ Len(images') = Len(images) - 1
                /\ images' = Without(images, last'.arg)
                /\ Named(images', last'.arg) = {})
        /\ \A oid \in Oids : (oid < nextId /\ oid \notin Ids(images)) => oid \notin Ids(images')
      ]_vars

\* The record just generated was deleted and the older one is still stored.
C4_Witness ==
    /\ last.op = "delete"
    /\ last.success
    /\ last.arg = ObjectIdStr(nextId - 1)
    /\ Len(images) = 1
    /\ nextId = FirstId + 2

Signal(a) == <<a.kind, a.exc, a.status_code, a.success>>
MalformedSignal  == <<"raise", "InvalidId", 0, FALSE>>
NotFoundSignal   == <<"raise", "HTTPException", 404, FALSE>>
StoreErrorSignal == <<"return", "none", 500, FALSE>>

\* C5: a delete by an identifier that does not parse fails with InvalidId and
\* leaves the store as it was; a delete that matches nothing answers with the
\* not-found signal and a store error with the success=False payload, and the
\* three differ.
C5_MalformedIsDistinct ==
    [][ last'.op = "delete" =>
          /\ last'.arg \in MalformedIds
                => (Signal(last') = MalformedSignal /\ last'.store = "none" /\ images' = images)
          /\ (last'.arg \notin MalformedIds /\ last'.store = "PyMongoError")
                => Signal(last') = StoreErrorSignal
          /\ (last'.arg \notin MalformedIds /\ last'.store = "ok" /\ Named(images, last'.arg) = {})
                => Signal(last') = NotFoundSignal
          /\ Cardinality({MalformedSignal, NotFoundSignal, StoreErrorSignal}) = 3
      ]_vars

C5_Witness ==
    /\ last.op = "delete"
    /\ last.arg \in MalformedIds
    /\ Len(last.arg) = IdLen
    /\ last.exc = "InvalidId"
    /\ Len(images) > 0

\* C8 as claimed: in every image handler a store error becomes a
\* success=False payload and does not leave the handler.
C8_StoreErrorsCaught ==
    last.store = "PyMongoError" => (last.kind = "return" /\ ~last.success)

\* As many records as generates succeeded minus deletes succeeded, under
\* distinct identifiers, all "completed".
StoreCounts ==
    /\ Len(images) = nGen - nDel
    /\ Cardinality(Ids(images)) = Len(images)
    /\ \A i \in 1..Len(images) : images[i].status = "completed"

\* C9: a successful generate appends one document under an identifier no
\* stored document has and returns that identifier's string form; the store
\* holds as many records as generates succeeded minus deletes succeeded, all
\* with status "completed" and with distinct identifiers.
C9_OneNewDocument ==
    /\ StoreCounts
    /\ [][ /\ StoreCounts'
           /\ (last'.op \in GenOps /\ last'.success)
                => (/\ Len(images') = Len(images) + 1
                    /\ SubSeq(images', 1, Len(images)) = images
                    /\ images'[Len(images')]._id \notin Ids(images)
                    /\ last'.id = ObjectIdStr(images'[Len(images')]._id)
                    /\ ObjectId(last'.id) = [ok |-> TRUE, oid |-> images'[Len(images')]._id]
                    /\ nGen' = nGen + 1)
         ]_vars

\* Two stored records that differ in their identifier alone.
C9_Witness ==
    /\ last.op = "generate" /\ last.success
    /\ Len(images) = 2
    /\ images[1]._id # images[2]._id
    /\ [images[1] EXCEPT !._id = 0] = [images[2] EXCEPT !._id = 0]

Normalized == {Expected(o) : o \in GenOutputs}

\* C10: with the key set, a generate whose upstream call raises ReplicateError
\* returns a success=False payload and leaves the store as it was; the store
\* grows only in a call whose upstream call returned, by a record holding the
\* normalized output.
C10_UpstreamErrorNoRecord ==
    [][ /\ (last'.op \in GenOps /\ last'.upstream = "ReplicateError")
            => (/\ apiKey
                /\ last'.kind = "return" /\ ~last'.success
                /\ images' = images)
        /\ Len(images') > Len(images)
            => (/\ last'.op \in GenOps /\ last'.upstream = "ok" /\ last'.success
                /\ last'.image_url \in Normalized
                /\ images'[Len(images')].output_url = last'.image_url)
      ]_vars

C10_Witness ==
    /\ apiKey
    /\ last.op = "generate-gen4"
    /\ last.upstream = "ReplicateError"
    /\ ~last.success
    /\ Len(images) > 0

-----------------------------------------------------------------------------
(* Claims about add_user_to_db (SpecUsers) *)

Count(seq, x) == Cardinality({i \in 1..Len(seq) : seq[i] = x})

\* Calls for u begun so far: the completed ones and those in flight.
Begun(u) == Len(log[u]) + Cardinality(InFlight(u))

\* C6 as claimed: two calls for one username, the second begun after the
\* first has inserted and returned, make at most one external fetch and at
\* most one insert, whatever the API answered.
C6_SecondCallHits ==
    \A u \in Usernames :
        (~overlap[u] /\ Begun(u) <= 2 /\ Len(log[u]) >= 1 /\ log[u][1] = "inserted")
            => /\ fetches[u] <= 1
               /\ Count(log[u], "inserted") <= 1

\* The inserts that took effect, over all usernames.
Inserted == Cardinality({c \in Usernames \X (1..MaxCalls) :
                            c[2] <= Len(log[c[1]]) /\ log[c[1]][c[2]] = "inserted"})

\* C7: nothing stands between a request that saw a miss and its insert: the
\* insert of a request suspended at insert_one can always take effect,
\* whatever the collection holds by then, and every insert that took effect
\* added a document.
C7_InsertUnguarded ==
    /\ \A p \in Requests : pc[p] = "insert_one" => ENABLED AddInsertOk(p)
    /\ Len(users) = Inserted

\* Both requests saw a miss for alice and both inserted her profile.
C7_Witness ==
    /\ overlap["alice"]
    /\ log["alice"] = <<"inserted", "inserted">>
    /\ fetches["alice"] = 2
    /\ users = <<Profile("alice"), Profile("alice")>>
    /\ \A p \in Requests : ~found[p] /\ uname[p] = "alice" /\ pc[p] = "idle"

====
